---- MODULE Spec2Model ----
(***************************************************************************)
(* Segment matching and merging of deva/inference/segment_merging.py:      *)
(* match_and_merge with its two strategies merge_by_iou and                *)
(* merge_by_engulf, run frame after frame on one object manager.           *)
(*                                                                         *)
(* A label mask is a function from the pixels to labels, 0 the background. *)
(* A per-object boolean mask is the set of its true pixels.  A ratio of    *)
(* two pixel counts is the pair <<numerator, denominator>>, compared by    *)
(* cross multiplication.                                                   *)
(***************************************************************************)
EXTENDS Integers, Sequences, FiniteSets, TLC

\* ---------------------------------------------------------------- bounds
NumPix == 3
MaxCand == 2
MaxSegments == 3
MaxFrames == 2
LongSegments == 2
LongFrames == 4

Pixels == 1..NumPix

\* ------------------------------------------------------- inputs of a call
\* ObjectInfo.isthing is Optional[bool]: None, False (stuff), True (thing)
IsThingValues == {"None", "False", "True"}
\* mode strings a host may pass; "IoU" needs the lower-casing, "area" is unknown
Modes == {"IoU", "engulf", "area"}
\* engulf_threshold values in (0,1); the default is 0.2
DefaultThreshold == <<1, 5>>
Thresholds == {<<1, 5>>, <<1, 2>>}
\* max_num_objects: -1 for no limit, or a positive cap
Caps == {-1, 2}

None == "None"

VARIABLES
    obj_to_tmp_id,              \* the object manager's objects, in insertion order; the i-th has temporary id i
    all_historical_object_ids,  \* every identity ever created
    max_num_objects,            \* the host's --max_num_objects, fixed for the run
    frame,                      \* number of match_and_merge calls made
    our_mask,                   \* the previous frame's label mask, in temporary ids, as propagated
    last                        \* record of the last call: its inputs, the state before it, what it did

vars == <<obj_to_tmp_id, all_historical_object_ids, max_num_objects, frame, our_mask, last>>

\* ----------------------------------------------------------- small helpers
Max(S) == CHOOSE x \in S : \A y \in S : y <= x

Gt(a, b) == a[1] * b[2] > b[1] * a[2]

Half == <<1, 2>>

Lower(mode) == CASE mode = "IoU" -> "iou"
                 [] mode = "Engulf" -> "engulf"
                 [] OTHER -> mode

\* merged_mask[mask] = value
Paint(mask, pixels, value) == [p \in Pixels |-> IF p \in pixels THEN value ELSE mask[p]]

\* ------------------------------------------------------------- _get_iou
_get_iou(m1, m2, m1_sum, m2_sum) ==
    LET intersection == Cardinality(m1 \cap m2)
        union == m1_sum + m2_sum - intersection
    IN  IF intersection < 1
        THEN [iou |-> <<0, 1>>, intersection |-> None, union |-> None]
        ELSE [iou |-> <<intersection, union>>, intersection |-> intersection, union |-> union]

\* matched = (iou > 0.5)
MatchedMut(iou) == Gt(iou, <<1, 4>>)

Matched(iou) == Gt(iou, Half)

\* iou > 0 and (intersection / new_sums[new_obj]) > engulf_threshold
EngulfedMut(r, new_sum, our_sum, engulf_threshold) ==
    Gt(r.iou, <<0, 1>>) /\ Gt(<<r.intersection, our_sum>>, engulf_threshold)

Engulfed(r, new_sum, our_sum, engulf_threshold) ==
    Gt(r.iou, <<0, 1>>) /\ Gt(<<r.intersection, new_sum>>, engulf_threshold)

\* ------------------------------------------------------ object manager
\* ObjectInfo of a newly registered object: a fresh identity, the candidate's
\* category type and score (scores counts the detections the object holds),
\* poke_count 0
NewObjectInfo(hist, seg) ==
    [id |-> IF hist = {} THEN 1 ELSE Max(hist) + 1, isthing |-> seg.isthing,
     poke_count |-> 0, scores |-> 1]

\* ObjectManager.find_object_by_id: position of the object in the registry
find_object_by_id(reg, id) == CHOOSE i \in 1..Len(reg) : reg[i].id = id

\* ObjectInfo.merge: the object absorbs the candidate's score
merge(obj) == [obj EXCEPT !.scores = @ + 1]

\* ObjectInfo.poke / unpoke
poke(obj) == [obj EXCEPT !.poke_count = @ + 1]

unpoke(obj) == [obj EXCEPT !.poke_count = 0]

\* ObjectManager.add_new_objects for one candidate, with the caller's
\* merged_mask[new_masks[obj]] = corresponding_obj_ids[0]
add_new_objects(cs, j, seg, pixels) ==
    LET o == NewObjectInfo(cs.hist, seg)
    IN  [cs EXCEPT !.reg = Append(@, o),
                   !.hist = @ \cup {o.id},
                   !.created = @ \cup {<<j, o.id>>},
                   !.mask = Paint(@, pixels, o.id)]

\* ObjectManager.make_one_hot: the objects present in the identity-space mask,
\* in registry order, get the temporary ids 1..K
Present(reg, mask) == SelectSeq(reg, LAMBDA o : \E p \in Pixels : mask[p] = o.id)

Relabel(kept, mask) ==
    [reg |-> kept,
     mask |-> [p \in Pixels |->
                 IF mask[p] = 0 THEN 0
                 ELSE CHOOSE i \in 1..Len(kept) : kept[i].id = mask[p]]]

make_one_hot(reg, mask) == Relabel(Present(reg, mask), mask)

\* ------------------------------------------------- the matched_area dict
\* matched_area[(obj, is_new)] = area: a new key goes last, an old key keeps its place
DictSet(d, obj, is_new, area) ==
    IF \E k \in 1..Len(d) : d[k].obj = obj /\ d[k].is_new = is_new
    THEN [k \in 1..Len(d) |->
            IF d[k].obj = obj /\ d[k].is_new = is_new THEN [d[k] EXCEPT !.area = area] ELSE d[k]]
    ELSE Append(d, [obj |-> obj, is_new |-> is_new, area |-> area])

\* rank of entry k once sorted by its key; sorted() is stable, also with reverse=True
RankAscending(d, k) ==
    1 + Cardinality({l \in 1..Len(d) : d[l].area < d[k].area \/ (d[l].area = d[k].area /\ l < k)})

RankDescending(d, k) ==
    1 + Cardinality({l \in 1..Len(d) : d[l].area > d[k].area \/ (d[l].area = d[k].area /\ l < k)})

\* sorted(matched_area.items(), key=lambda x: x[1], reverse=True)
SortedAscending(d) == [r \in 1..Len(d) |-> d[CHOOSE k \in 1..Len(d) : RankAscending(d, k) = r]]

sorted_by_area(d) == [r \in 1..Len(d) |-> d[CHOOSE k \in 1..Len(d) : RankDescending(d, k) = r]]

\* -------------------------------------------------------- the matching
\* E: the call's fixed data (new_segments_info, our_masks, new_masks, our_sums,
\* new_sums, engulf_threshold); reg: obj_to_tmp_id when the pass starts
EmptyAcc(reg) == [our_to_new_matching |-> [i \in 1..Len(reg) |-> 0],
                  matched_area |-> <<>>,
                  new_objects |-> <<>>,
                  selected |-> <<>>,
                  discarded |-> {}]

First(hits) == IF hits = {} THEN 0 ELSE CHOOSE i \in hits : \A k \in hits : i <= k

\* merge_by_iou's inner for: the first object of the type, not yet matched,
\* whose IoU with candidate j exceeds 0.5; 0 when the loop ends without a break
FirstIouMatch(E, reg, st, matching, j) ==
    First({i \in 1..Len(reg) :
             /\ reg[i].isthing = st
             /\ matching[i] = 0
             /\ Matched(_get_iou(E.new_masks[j], E.our_masks[i],
                                 E.new_sums[j], E.our_sums[i]).iou)})

\* our_to_new_matching[our_obj] = new_obj; matched_area[(our_obj, False)] = union
RecordMatch(E, acc, i, j) ==
    [acc EXCEPT !.our_to_new_matching[i] = j,
                !.matched_area = DictSet(@, i, FALSE,
                                         _get_iou(E.new_masks[j], E.our_masks[i],
                                                  E.new_sums[j], E.our_sums[i]).union),
                !.selected = Append(@, <<i, j>>)]

\* new_objects.append(new_obj); matched_area[(new_obj, True)] = new_sums[new_obj]
RecordNew(E, acc, j) ==
    [acc EXCEPT !.new_objects = Append(@, j),
                !.matched_area = DictSet(@, j, TRUE, E.new_sums[j])]

\* the body of merge_by_iou's outer for, for candidate j, i being the inner for's break
IouStep(E, acc, i, j) == IF i # 0 THEN RecordMatch(E, acc, i, j) ELSE RecordNew(E, acc, j)

RECURSIVE IouLoop(_, _, _, _, _)
IouLoop(E, reg, st, j, acc) ==
    IF j > Len(E.new_segments_info) THEN acc
    ELSE IF E.new_segments_info[j].isthing # st THEN IouLoop(E, reg, st, j + 1, acc)
    ELSE IouLoop(E, reg, st, j + 1,
                 IouStep(E, acc, FirstIouMatch(E, reg, st, acc.our_to_new_matching, j), j))

\* merge_by_engulf's inner for: the first object of the type at which the
\* loop breaks (IoU above 0.5, or the candidate engulfed); 0 when it never breaks
BreaksAt(E, j, i, r) ==
    \/ Matched(r.iou)
    \/ Engulfed(r, E.new_sums[j], E.our_sums[i], E.engulf_threshold)

FirstEngulfBreak(E, reg, st, j) ==
    First({i \in 1..Len(reg) :
             /\ reg[i].isthing = st
             /\ BreaksAt(E, j, i, _get_iou(E.new_masks[j], E.our_masks[i],
                                           E.new_sums[j], E.our_sums[i]))})

\* the body of merge_by_engulf's outer for, for candidate j, i being the inner for's break
EngulfStep(E, acc, i, j) ==
    IF i = 0 THEN RecordNew(E, acc, j)
    ELSE IF Matched(_get_iou(E.new_masks[j], E.our_masks[i], E.new_sums[j], E.our_sums[i]).iou)
         THEN RecordMatch(E, acc, i, j)
         ELSE [acc EXCEPT !.discarded = @ \cup {j}]

RECURSIVE EngulfLoop(_, _, _, _, _)
EngulfLoop(E, reg, st, j, acc) ==
    IF j > Len(E.new_segments_info) THEN acc
    ELSE IF E.new_segments_info[j].isthing # st THEN EngulfLoop(E, reg, st, j + 1, acc)
    ELSE EngulfLoop(E, reg, st, j + 1, EngulfStep(E, acc, FirstEngulfBreak(E, reg, st, j), j))

\* "for all unmatched our segment"
RECURSIVE Unmatched(_, _, _, _, _)
Unmatched(E, reg, st, i, acc) ==
    IF i > Len(reg) THEN acc
    ELSE IF reg[i].isthing # st \/ acc.our_to_new_matching[i] # 0
         THEN Unmatched(E, reg, st, i + 1, acc)
         ELSE Unmatched(E, reg, st, i + 1,
                        [acc EXCEPT !.matched_area = DictSet(@, i, FALSE, E.our_sums[i])])

\* ------------------------------------------------------- the rendering
\* an entry that is not a new object: the merge of a matched pair, or the
\* copy of a carried-over object from our forward mask
Merge(E, cs, obj, k, j, area) ==
    [cs EXCEPT !.mask = Paint(Paint(@, E.our_masks[k], obj.id), E.new_masks[j], obj.id),
               !.merges = @ \cup {<<obj.id, j>>},
               !.reg[find_object_by_id(cs.reg, obj.id)] = unpoke(merge(@)),
               !.unpokes[obj.id] = @ + 1,
               !.rendered = Append(@, [ident |-> obj.id, area |-> area,
                                        pixels |-> E.our_masks[k] \cup E.new_masks[j]])]

MergeWithoutUnpoke(E, cs, obj, k, j, area) ==
    [cs EXCEPT !.mask = Paint(Paint(@, E.our_masks[k], obj.id), E.new_masks[j], obj.id),
               !.merges = @ \cup {<<obj.id, j>>},
               !.reg[find_object_by_id(cs.reg, obj.id)] = merge(@),
               !.rendered = Append(@, [ident |-> obj.id, area |-> area,
                                        pixels |-> E.our_masks[k] \cup E.new_masks[j]])]

Copy(E, cs, obj, k, area) ==
    [cs EXCEPT !.mask = Paint(@, E.our_masks[k], obj.id),
               !.reg[find_object_by_id(cs.reg, obj.id)] = poke(@),
               !.pokes[obj.id] = @ + 1,
               !.rendered = Append(@, [ident |-> obj.id, area |-> area,
                                        pixels |-> E.our_masks[k]])]

RenderOldMut(E, cs, reg, matching, e) ==
    IF matching[e.obj] # 0
    THEN MergeWithoutUnpoke(E, cs, reg[e.obj], e.obj, matching[e.obj], e.area)
    ELSE Copy(E, cs, reg[e.obj], e.obj, e.area)

RenderOld(E, cs, reg, matching, e) ==
    IF matching[e.obj] # 0
    THEN Merge(E, cs, reg[e.obj], e.obj, matching[e.obj], e.area)
    ELSE Copy(E, cs, reg[e.obj], e.obj, e.area)

LogNew(c, e, pixels) ==
    [c EXCEPT !.rendered = Append(@, [ident |-> c.reg[Len(c.reg)].id, area |-> e.area,
                                       pixels |-> pixels])]

RenderNew(E, cs, e) ==
    LogNew(add_new_objects(cs, e.obj, E.new_segments_info[e.obj], E.new_masks[e.obj]),
           e, E.new_masks[e.obj])

RECURSIVE Render(_, _, _, _, _, _)
Render(E, cs, reg, matching, order, k) ==
    IF k > Len(order) THEN cs
    ELSE Render(E,
                IF order[k].is_new THEN RenderNew(E, cs, order[k])
                ELSE RenderOld(E, cs, reg, matching, order[k]),
                reg, matching, order, k + 1)

\* one pass: the matching, then the rendering; the pass is logged in cs.passes
PassLog(st, acc, done) ==
    [done EXCEPT !.passes = Append(@, [isthing_status |-> st,
                                        our_to_new_matching |-> acc.our_to_new_matching,
                                        new_objects |-> acc.new_objects,
                                        selected |-> acc.selected,
                                        discarded |-> acc.discarded,
                                        rendered |-> done.rendered,
                                        mask |-> done.mask])]

RenderAll(E, cs, st, acc) ==
    PassLog(st, acc,
            Render(E, [cs EXCEPT !.rendered = <<>>], cs.reg, acc.our_to_new_matching,
                   sorted_by_area(acc.matched_area), 1))

Pass(E, cs, st, acc0) == RenderAll(E, cs, st, Unmatched(E, cs.reg, st, 1, acc0))

merge_by_iou(E, cs, st) == Pass(E, cs, st, IouLoop(E, cs.reg, st, 1, EmptyAcc(cs.reg)))

merge_by_engulf(E, cs, st) == Pass(E, cs, st, EngulfLoop(E, cs.reg, st, 1, EmptyAcc(cs.reg)))

\* ------------------------------------------------------ match_and_merge
\* match_isthing = [None, False, True]
match_isthing_Mut == <<"None", "True", "False">>

match_isthing == <<"None", "False", "True">>

\* max_num_objects > 0 and len(all_historical_object_ids) + len(new_segments_info) > max_num_objects
TooManyMut(hist, segs, cap) == cap > 0 /\ Cardinality(hist) > cap

TooMany(hist, segs, cap) == cap > 0 /\ Cardinality(hist) + Len(segs) > cap

\* {obj: (our_mask == tmp) for obj, tmp in obj_to_tmp_id.items()}
OurMasks(prev_mask, reg) == [i \in 1..Len(reg) |-> {p \in Pixels : prev_mask[p] = i}]

\* {obj: (new_mask == obj.id) for obj in new_segments_info}
NewMasks(new_mask, segs) == [j \in 1..Len(segs) |-> {p \in Pixels : new_mask[p] = segs[j].id}]

\* {obj: m.sum() ...}: the doubled comprehension writes every key with its own sum
Sums(masks) == [i \in DOMAIN masks |-> Cardinality(masks[i])]

\* the data of a call once the cap has been applied
CallData(prev_mask, new_mask, reg, hist, segs0, cap, engulf_threshold) ==
    LET too_many == TooMany(hist, segs0, cap)
        segs == IF too_many THEN <<>> ELSE segs0
        our_masks == OurMasks(prev_mask, reg)
        new_masks == IF too_many THEN <<>> ELSE NewMasks(new_mask, segs0)
    IN  [new_segments_info |-> segs,
         our_masks |-> our_masks,
         new_masks |-> new_masks,
         our_sums |-> Sums(our_masks),
         new_sums |-> Sums(new_masks),
         engulf_threshold |-> engulf_threshold]

RECURSIVE Passes(_, _, _, _)
Passes(E, cs, mode, k) ==
    IF k > Len(match_isthing) THEN cs
    ELSE Passes(E,
                IF mode = "iou" THEN merge_by_iou(E, cs, match_isthing[k])
                ELSE IF mode = "engulf" THEN merge_by_engulf(E, cs, match_isthing[k])
                ELSE cs,
                mode, k + 1)

StartState(reg, hist) ==
    [reg |-> reg,
     hist |-> hist,
     mask |-> [p \in Pixels |-> 0],
     created |-> {},
     merges |-> {},
     pokes |-> [id \in hist |-> 0],
     unpokes |-> [id \in hist |-> 0],
     rendered |-> <<>>,
     passes |-> <<>>]

\* the return of match_and_merge: make_one_hot's relabelling, and the record of the call
Return(new_mask, new_segments_info, mode, engulf_threshold, cs, out) ==
    /\ obj_to_tmp_id' = out.reg
    /\ all_historical_object_ids' = cs.hist
    /\ frame' = frame + 1
    /\ last' = [called |-> TRUE,
                outcome |-> "returned",
                new_mask |-> new_mask,
                new_segments_info |-> new_segments_info,
                mode |-> mode,
                engulf_threshold |-> engulf_threshold,
                pre_reg |-> obj_to_tmp_id,
                pre_hist |-> all_historical_object_ids,
                reg |-> cs.reg,
                created |-> cs.created,
                merges |-> cs.merges,
                pokes |-> cs.pokes,
                unpokes |-> cs.unpokes,
                passes |-> cs.passes,
                merged_mask |-> cs.mask,
                out_mask |-> out.mask]
    /\ UNCHANGED <<max_num_objects, our_mask>>

Merged(new_mask, new_segments_info, mode, engulf_threshold, cs) ==
    Return(new_mask, new_segments_info, mode, engulf_threshold, cs, make_one_hot(cs.reg, cs.mask))

match_and_merge(new_mask, new_segments_info, mode0, engulf_threshold) ==
    Merged(new_mask, new_segments_info, Lower(mode0), engulf_threshold,
           Passes(CallData(our_mask, new_mask, obj_to_tmp_id, all_historical_object_ids,
                           new_segments_info, max_num_objects, engulf_threshold),
                  StartState(obj_to_tmp_id, all_historical_object_ids), Lower(mode0), 1))

\* ----------------------------------------------------- the specification
\* candidate lists as a detector returns them: ids 1..m in list order
SegmentLists == UNION {[1..m -> IsThingValues] : m \in 0..MaxCand}

Segments(types) == [j \in 1..Len(types) |-> [id |-> j, isthing |-> types[j]]]

NoCall == [called |-> FALSE]

\* the masks the propagation can hand to the next call: a label per pixel among
\* the temporary ids of the registry
PropagatedMasks(reg) == [Pixels -> 0..Len(reg)]

Init ==
    /\ obj_to_tmp_id = <<>>
    /\ all_historical_object_ids = {}
    /\ max_num_objects \in Caps
    /\ frame = 0
    /\ our_mask = [p \in Pixels |-> 0]
    /\ last = NoCall

\* the detector's output for the frame arrives and the host calls match_and_merge
Detect(max_frames, max_segments) ==
    /\ ~last.called
    /\ frame < max_frames
    /\ \E types \in SegmentLists :
       /\ Len(obj_to_tmp_id) + Len(types) <= max_segments
       /\ \E new_mask \in [Pixels -> 0..Len(types)] :
          \E mode \in Modes, engulf_threshold \in Thresholds :
             /\ Lower(mode) = "engulf" \/ engulf_threshold = DefaultThreshold
             /\ match_and_merge(new_mask, Segments(types), mode, engulf_threshold)

\* the host propagates the merged mask to the next frame
Propagate(max_frames) ==
    /\ last.called
    /\ frame < max_frames
    /\ our_mask' \in PropagatedMasks(obj_to_tmp_id)
    /\ last' = NoCall
    /\ UNCHANGED <<obj_to_tmp_id, all_historical_object_ids, max_num_objects, frame>>

\* two frames, with up to MaxSegments old and new segments in a call
Next == Detect(MaxFrames, MaxSegments) \/ Propagate(MaxFrames)

Spec == Init /\ [][Next]_vars

\* longer runs of smaller frames
NextLong == Detect(LongFrames, LongSegments) \/ Propagate(LongFrames)

SpecLong == Init /\ [][NextLong]_vars

\* ================================================================ claims
\* what the claims speak of, read from the record of the last call
Valid == last.mode \in {"iou", "engulf"}

\* the cap condition in the claims' words
CapExceeded ==
    max_num_objects > 0
    /\ Cardinality(last.pre_hist) + Len(last.new_segments_info) > max_num_objects

PrevMasks == OurMasks(our_mask, last.pre_reg)

CandMasks == NewMasks(last.new_mask, last.new_segments_info)

Objs == 1..Len(last.pre_reg)

Cands == 1..Len(last.new_segments_info)

SameType(i, j) == last.pre_reg[i].isthing = last.new_segments_info[j].isthing

\* intersection over union above 0.5, on the pixel sets themselves
IoUAboveHalf(a, b) == a \cap b # {} /\ 2 * Cardinality(a \cap b) > Cardinality(a \cup b)

IoUBelowHalf(a, b) == 2 * Cardinality(a \cap b) < Cardinality(a \cup b)

Overlapping(ps, a, b) ==
    /\ ps.rendered[a].area > ps.rendered[b].area
    /\ ps.rendered[a].pixels \cap ps.rendered[b].pixels # {}

\* the type of the owner of pixel p before the call, and the owner and its type
\* in the merged mask; 0 is no owner
PrevType(p) == IF our_mask[p] = 0 THEN "background" ELSE last.pre_reg[our_mask[p]].isthing

OutId(p) == last.merged_mask[p]

OutType(p) ==
    IF OutId(p) = 0 THEN "background"
    ELSE last.reg[CHOOSE i \in 1..Len(last.reg) : last.reg[i].id = OutId(p)].isthing

\* pixel p went to object x through x's match with a candidate covering p
TakenByMatch(p, x) == \E j \in Cands : <<x, j>> \in last.merges /\ p \in CandMasks[j]

\* ---------------------------------------------------------------- C1
\* C1 (as stated): within one pass, a pixel covered by two rendered entries of
\* different area keys is left with the entry of the LARGER key.
C1_LargerAreaWins ==
    last.called =>
        \A k \in 1..Len(last.passes) :
            \A a, b \in 1..Len(last.passes[k].rendered) :
                Overlapping(last.passes[k], a, b) =>
                    \A p \in last.passes[k].rendered[a].pixels \cap last.passes[k].rendered[b].pixels :
                        last.passes[k].mask[p] = last.passes[k].rendered[a].ident

\* C1 (amended): within one pass, a pixel covered by two rendered entries of
\* different area keys is left, when the pass ends, with the entry of the
\* SMALLER key: the entries are rendered in descending order of area and a later
\* write overwrites an earlier one.
C1_SmallerAreaWins ==
    last.called =>
        \A k \in 1..Len(last.passes) :
            \A a, b \in 1..Len(last.passes[k].rendered) :
                Overlapping(last.passes[k], a, b) =>
                    \A p \in last.passes[k].rendered[a].pixels \cap last.passes[k].rendered[b].pixels :
                        last.passes[k].mask[p] = last.passes[k].rendered[b].ident

\* a carried-over object and a new object of a smaller area share a pixel
C1_Witness ==
    /\ last.called
    /\ \E k \in 1..Len(last.passes) :
        \E a, b \in 1..Len(last.passes[k].rendered) :
            /\ Overlapping(last.passes[k], a, b)
            /\ last.passes[k].rendered[a].ident \in last.pre_hist
            /\ last.passes[k].rendered[b].ident \notin last.pre_hist

\* ---------------------------------------------------------------- C2
\* C2: when the cap is exceeded every candidate of the frame is discarded: each
\* pixel of the merged mask is background or its previous owner's, no object is
\* registered, merged or matched, the historical identities are those before the
\* call, and (the mode being iou or engulf, so that the passes run) every existing
\* object is carried over: it keeps its pixels and is poked once, never unpoked.
C2_CapDiscardsAllCandidates ==
    (last.called /\ CapExceeded) =>
        /\ \A p \in Pixels :
              last.merged_mask[p] # 0 =>
                  our_mask[p] # 0 /\ last.merged_mask[p] = last.pre_reg[our_mask[p]].id
        /\ last.created = {}
        /\ last.merges = {}
        /\ all_historical_object_ids = last.pre_hist
        /\ Len(last.reg) = Len(last.pre_reg)
        /\ \A k \in 1..Len(last.passes) :
              last.passes[k].new_objects = <<>> /\ last.passes[k].selected = <<>>
        /\ Valid =>
              /\ \A p \in Pixels :
                    our_mask[p] # 0 => last.merged_mask[p] = last.pre_reg[our_mask[p]].id
              /\ \A i \in Objs :
                    /\ last.pokes[last.pre_reg[i].id] = 1
                    /\ last.unpokes[last.pre_reg[i].id] = 0

\* the cap is exceeded by a frame one of whose candidates covers an existing
\* object of its type exactly
C2_Witness ==
    /\ last.called /\ CapExceeded /\ Valid
    /\ \E i \in Objs, j \in Cands :
          SameType(i, j) /\ PrevMasks[i] # {} /\ PrevMasks[i] = CandMasks[j]

\* ---------------------------------------------------------------- C3
\* C3: a call whose mode is neither iou nor engulf ends in an error and leaves
\* the registry as it was.
C3_UnknownModeFailsFast ==
    (last.called /\ ~Valid) =>
        /\ last.outcome = "error"
        /\ obj_to_tmp_id = last.pre_reg
        /\ all_historical_object_ids = last.pre_hist

\* ---------------------------------------------------------------- C4
\* C4: in engulf mode a candidate that has IoU above 0.5 with an existing object
\* of its type is merged into such an object, which is unpoked; it is neither
\* discarded nor registered as a new object.
C4_IouMatchBeforeEngulf ==
    (last.called /\ last.mode = "engulf" /\ ~CapExceeded) =>
        \A j \in Cands :
            (\E i \in Objs : SameType(i, j) /\ IoUAboveHalf(CandMasks[j], PrevMasks[i])) =>
                /\ \E i \in Objs :
                      /\ SameType(i, j) /\ IoUAboveHalf(CandMasks[j], PrevMasks[i])
                      /\ <<last.pre_reg[i].id, j>> \in last.merges
                      /\ last.unpokes[last.pre_reg[i].id] = 1
                /\ \A k \in 1..Len(last.passes) : j \notin last.passes[k].discarded
                /\ \A c \in last.created : c[1] # j

\* ---------------------------------------------------------------- C5
\* C5 (as stated): no pixel of a Thing object goes to a Stuff object through the
\* Stuff object's match, and no pixel of a Stuff object goes to a Thing object
\* through the Thing object's match.
C5_CategoryIsolation ==
    last.called =>
        \A p \in Pixels :
            /\ ~(PrevType(p) = "True" /\ OutType(p) = "False" /\ TakenByMatch(p, OutId(p)))
            /\ ~(PrevType(p) = "False" /\ OutType(p) = "True" /\ TakenByMatch(p, OutId(p)))

\* C5 (amended): no pixel owned by a Thing object in the previous mask is owned
\* by a Stuff object in the merged mask; the Thing pass runs last.
C5_ThingNeverToStuff ==
    last.called => \A p \in Pixels : ~(PrevType(p) = "True" /\ OutType(p) = "False")

\* a Stuff object is matched with a candidate that covers a pixel of a Thing object
C5_Witness ==
    /\ last.called
    /\ \E p \in Pixels, i \in Objs :
          /\ PrevType(p) = "True"
          /\ last.pre_reg[i].isthing = "False"
          /\ TakenByMatch(p, last.pre_reg[i].id)

\* ---------------------------------------------------------------- C6
\* C6: after a call in iou or engulf mode every object that was in the registry
\* has been poked or unpoked exactly once: its staleness is 0 if a candidate was
\* merged into it, and its staleness before the call plus 1 otherwise.
C6_StalenessUpdatedOnce ==
    (last.called /\ Valid) =>
        \A i \in Objs :
            /\ last.reg[i].id = last.pre_reg[i].id
            /\ last.pokes[last.pre_reg[i].id] + last.unpokes[last.pre_reg[i].id] = 1
            /\ IF \E j \in Cands : <<last.pre_reg[i].id, j>> \in last.merges
               THEN last.reg[i].poke_count = 0 /\ last.unpokes[last.pre_reg[i].id] = 1
               ELSE last.reg[i].poke_count = last.pre_reg[i].poke_count + 1

\* an object that went unmatched in an earlier frame is matched again
C6_Witness ==
    /\ last.called /\ Valid
    /\ \E i \in Objs :
          /\ last.pre_reg[i].poke_count > 0
          /\ \E j \in Cands : <<last.pre_reg[i].id, j>> \in last.merges

\* ---------------------------------------------------------------- C7
\* C7: in one call no object is selected as the match of two candidates, no
\* candidate is matched to two objects, and every match that was recorded is
\* still the object's match when the pass renders (none is overwritten).
C7_OneToAtMostOne ==
    last.called =>
        /\ \A k \in 1..Len(last.passes) :
              \A a \in 1..Len(last.passes[k].selected) :
                  /\ last.passes[k].our_to_new_matching[last.passes[k].selected[a][1]]
                         = last.passes[k].selected[a][2]
                  /\ <<last.reg[last.passes[k].selected[a][1]].id, last.passes[k].selected[a][2]>>
                         \in last.merges
                  /\ \A b \in 1..Len(last.passes[k].selected) :
                        a # b => /\ last.passes[k].selected[a][1] # last.passes[k].selected[b][1]
                                 /\ last.passes[k].selected[a][2] # last.passes[k].selected[b][2]
        /\ \A m1, m2 \in last.merges :
              (m1[1] = m2[1] \/ m1[2] = m2[2]) => m1 = m2

\* engulf mode: an object is matched and a second candidate of its type meets it
C7_Witness ==
    /\ last.called /\ last.mode = "engulf"
    /\ \E i \in Objs, j1, j2 \in Cands :
          /\ j1 # j2
          /\ <<last.pre_reg[i].id, j1>> \in last.merges
          /\ SameType(i, j2)
          /\ CandMasks[j2] \cap PrevMasks[i] # {}

\* ---------------------------------------------------------------- C8
\* C8: in engulf mode a non-empty candidate that lies inside the previous mask
\* of one object of its type, with IoU below 0.5, is discarded: it is not merged,
\* no object is registered for it, and its pixels stay the engulfing object's.
C8_EngulfedCandidateDiscarded ==
    (last.called /\ last.mode = "engulf" /\ ~CapExceeded) =>
        \A j \in Cands, i \in Objs :
            ( /\ CandMasks[j] # {}
              /\ CandMasks[j] \subseteq PrevMasks[i]
              /\ SameType(i, j)
              /\ IoUBelowHalf(CandMasks[j], PrevMasks[i]) ) =>
                /\ \A m \in last.merges : m[2] # j
                /\ \A c \in last.created : c[1] # j
                /\ \A k \in 1..Len(last.passes) :
                      \A a \in 1..Len(last.passes[k].new_objects) :
                          last.passes[k].new_objects[a] # j
                /\ \A p \in CandMasks[j] : last.merged_mask[p] = last.pre_reg[i].id

C8_Witness ==
    /\ last.called /\ last.mode = "engulf" /\ ~CapExceeded
    /\ \E j \in Cands, i \in Objs :
          /\ CandMasks[j] # {}
          /\ CandMasks[j] \subseteq PrevMasks[i]
          /\ SameType(i, j)
          /\ IoUBelowHalf(CandMasks[j], PrevMasks[i])
          /\ \E k \in 1..Len(last.passes) : j \in last.passes[k].discarded

\* ---------------------------------------------------------------- C9
\* C9: with max_num_objects = N > 0 the historical identities never number more
\* than N; a call only adds identities, the added ones are new, and the objects
\* of the registry are among them.
C9_HistoryWithinCap ==
    /\ max_num_objects > 0 => Cardinality(all_historical_object_ids) <= max_num_objects
    /\ \A i \in 1..Len(obj_to_tmp_id) : obj_to_tmp_id[i].id \in all_historical_object_ids
    /\ last.called =>
          /\ last.pre_hist \subseteq all_historical_object_ids
          /\ all_historical_object_ids = last.pre_hist \cup {c[2] : c \in last.created}
          /\ \A c \in last.created : c[2] \notin last.pre_hist
          /\ \A c1, c2 \in last.created : c1[2] = c2[2] => c1 = c2

\* the cap is full, an object of the history is not in the mask, and a frame
\* that would fit beside the visible objects is discarded
C9_Witness ==
    /\ last.called /\ CapExceeded /\ Valid
    /\ Cardinality(all_historical_object_ids) = max_num_objects
    /\ Len(last.pre_reg) + Len(last.new_segments_info) <= max_num_objects
    /\ last.new_segments_info # <<>>

\* --------------------------------------------------------------- C10
Perms(n) == {f \in [1..n -> 1..n] : \A a, b \in 1..n : f[a] = f[b] => a = b}

\* the candidates the passes see: none when the cap is exceeded
SeenCands == IF CapExceeded THEN {} ELSE Cands

\* merge_by_iou's matching for type st with the registry read in the order pi
\* and the candidate list in the order sigma
Permuted(pi, sigma) ==
    [new_segments_info |-> [k \in 1..Len(sigma) |-> last.new_segments_info[sigma[k]]],
     our_masks |-> [k \in 1..Len(pi) |-> PrevMasks[pi[k]]],
     new_masks |-> [k \in 1..Len(sigma) |-> CandMasks[sigma[k]]],
     our_sums |-> [k \in 1..Len(pi) |-> Cardinality(PrevMasks[pi[k]])],
     new_sums |-> [k \in 1..Len(sigma) |-> Cardinality(CandMasks[sigma[k]])],
     engulf_threshold |-> last.engulf_threshold]

PermutedReg(pi) == [k \in 1..Len(pi) |-> last.pre_reg[pi[k]]]

\* the outcome as sets of identities: matched pairs, new objects, carried-over objects
Outcome(acc, reg, segs, st) ==
    [matched |-> {<<reg[i].id, segs[acc.our_to_new_matching[i]].id>> :
                     i \in {k \in 1..Len(reg) : acc.our_to_new_matching[k] # 0}},
     new |-> {segs[acc.new_objects[a]].id : a \in 1..Len(acc.new_objects)},
     carried |-> {reg[i].id : i \in {k \in 1..Len(reg) :
                                        reg[k].isthing = st /\ acc.our_to_new_matching[k] = 0}}]

OutcomeUnder(pi, sigma, st) ==
    Outcome(IouLoop(Permuted(pi, sigma), PermutedReg(pi), st, 1, EmptyAcc(PermutedReg(pi))),
            PermutedReg(pi), Permuted(pi, sigma).new_segments_info, st)

\* the outcome of the pass as the call ran it
OutcomeLogged(k) ==
    [matched |-> {<<last.reg[i].id, last.new_segments_info[last.passes[k].our_to_new_matching[i]].id>> :
                     i \in {x \in Objs : last.passes[k].our_to_new_matching[x] # 0}},
     new |-> {last.new_segments_info[last.passes[k].new_objects[a]].id :
                 a \in 1..Len(last.passes[k].new_objects)},
     carried |-> {last.pre_reg[i].id :
                     i \in {x \in Objs : /\ last.pre_reg[x].isthing = last.passes[k].isthing_status
                                         /\ last.passes[k].our_to_new_matching[x] = 0}}]

\* C10: in iou mode at most one object of its type has IoU above 0.5 with a
\* candidate and at most one candidate with an object, and the matched pairs,
\* the new objects and the carried-over objects of every pass are the same for
\* every order of the registry and every order of the candidate list.
C10_IouMatchingOrderIndependent ==
    (last.called /\ last.mode = "iou") =>
        /\ \A j \in SeenCands : \A i1, i2 \in Objs :
              ( /\ SameType(i1, j) /\ IoUAboveHalf(CandMasks[j], PrevMasks[i1])
                /\ SameType(i2, j) /\ IoUAboveHalf(CandMasks[j], PrevMasks[i2]) ) => i1 = i2
        /\ \A i \in Objs : \A j1, j2 \in SeenCands :
              ( /\ SameType(i, j1) /\ IoUAboveHalf(CandMasks[j1], PrevMasks[i])
                /\ SameType(i, j2) /\ IoUAboveHalf(CandMasks[j2], PrevMasks[i]) ) => j1 = j2
        /\ \A k \in 1..Len(last.passes) :
              \A pi \in Perms(Len(last.pre_reg)) :
                  \A sigma \in Perms(Cardinality(SeenCands)) :
                      OutcomeUnder(pi, sigma, last.passes[k].isthing_status) = OutcomeLogged(k)

\* an iou pass with two candidates of its type: one is matched, the other
\* meets the matched object and becomes a new object
C10_Witness ==
    /\ last.called /\ last.mode = "iou"
    /\ \E k \in 1..Len(last.passes) :
          /\ Len(last.passes[k].selected) = 1
          /\ Len(last.passes[k].new_objects) = 1
          /\ CandMasks[last.passes[k].new_objects[1]] \cap PrevMasks[last.passes[k].selected[1][1]] # {}

====
